---------------------------- MODULE Spec2Model ----------------------------
(***************************************************************************)
(* Model of redfish-monitor (src/src/main.rs): session acquisition         *)
(* (get_tokens), the background sensor poller (update_readings in the      *)
(* spawned loop), the shared snapshot slot behind a tokio RwLock, and the  *)
(* render loop with terminal setup and teardown (start_ui).                *)
(***************************************************************************)
EXTENDS Integers, Sequences, FiniteSets, TLC

(***************************************************************************)
(* Bounds and input domains                                                *)
(***************************************************************************)
\* longest controller address list given on the command line
MaxIps == 2
\* longest "Sensors" array drawn for the sensor-folding specification
MaxSensors == 2

\* tick_rate of the render loop, in milliseconds
TickRate == 1000

\* Option::None of a metric (metrics are u64, so never negative)
None == -1

Addrs == {"a1", "a2"}

\* points of time (ms since last_tick) the model distinguishes; the last one
\* stands for every elapsed time beyond the tick
TimePoints == {0, 500, 1000, 1500}

SeqsUpTo(S, n) == UNION {[1..k -> S] : k \in 0..n}

\* the address lists of the command line, one to MaxIps addresses; the
\* addresses are opaque, so the first one is always called "a1"
IpLists == {l \in SeqsUpTo(Addrs, MaxIps) : l # << >> /\ l[1] = "a1"}

(***************************************************************************)
(* JSON values as far as the program looks at them                         *)
(***************************************************************************)
\* the value found under "Reading" of one sensor entry
U64(n) == [t |-> "u64", v |-> n]
ReadingMissing == [t |-> "missing"]
ReadingString == [t |-> "string"]
ReadingNegative == [t |-> "negative"]
ReadingFloat == [t |-> "float"]

\* faulty variant: a Reading that is no u64 counts as zero
as_u64_or_zero(rv) == IF rv.t = "u64" THEN rv.v ELSE 0

\* serde_json Value::as_u64: Some only for a non-negative integer
as_u64(rv) == IF rv.t = "u64" THEN rv.v ELSE None

\* the value found under "Name": a string, or missing / not a string
NameStr(s) == [t |-> "str", s |-> s]
NameMissing == [t |-> "missing"]

\* sensor.get("Name").and_then(|v| v.as_str()).unwrap_or("")
name_of(nv) == IF nv.t = "str" THEN nv.s ELSE ""

Metrics == {"psu_pin", "cpu_power", "cpu0_power", "cpu1_power",
            "fan_power", "cpu0_temp", "cpu1_temp"}

\* SensorReading with every metric None
EmptyReading == [m \in Metrics |-> None]

\* the match on the sensor name: the field a name selects, "" for `_ => {}`
FieldOf(name) ==
    CASE name = "PSU1_PIN" -> "psu_pin"
      [] name = "CPU_Power" -> "cpu_power"
      [] name = "CPU0_Power" -> "cpu0_power"
      [] name = "CPU1_Power" -> "cpu1_power"
      [] name = "CPU0_Temp" -> "cpu0_temp"
      [] name = "CPU1_Temp" -> "cpu1_temp"
      [] name = "Fan_Power" -> "fan_power"
      [] OTHER -> ""

\* faulty variant: an entry without numeric Reading leaves the metric as it is
ApplySensor_KeepNumeric(reading, sensor) ==
    LET name == name_of(sensor.name)
        value == as_u64(sensor.reading)
        field == FieldOf(name)
    IN  IF field = "" \/ value = None THEN reading
        ELSE [reading EXCEPT ![field] = value]

\* one iteration of `for sensor in sensors`
ApplySensor(reading, sensor) ==
    LET name == name_of(sensor.name)
        value == as_u64(sensor.reading)
        field == FieldOf(name)
    IN  IF field = "" THEN reading
        ELSE [reading EXCEPT ![field] = value]

\* the whole loop over the "Sensors" array, first entry first
RECURSIVE FoldSensors(_, _)
FoldSensors(reading, sensors) ==
    IF sensors = << >> THEN reading
    ELSE FoldSensors(ApplySensor(reading, Head(sensors)), Tail(sensors))

ParseSensors(sensors) == FoldSensors(EmptyReading, sensors)


(***************************************************************************)
(* Responses of the controllers (the environment's inputs)                 *)
(***************************************************************************)
\* the value found under Oem.Public.X-Auth-Token of a login response
TokenStr(s) == [t |-> "str", s |-> s]
TokenMissing == [t |-> "missing"]
TokenNotString == [t |-> "not_string"]

\* the token a controller issues for a session
IssuedToken(ip) == "tok-" \o ip

\* json["Oem"]["Public"]["X-Auth-Token"].as_str().unwrap_or("")
token_of(tv) == IF tv.t = "str" THEN tv.s ELSE ""

\* what can come back from the login POST to `ip`: no response at all, a
\* response whose body cannot be read, a body that is not JSON, or JSON with
\* or without the string token
LoginResponses(ip) ==
    {[kind |-> "send_err"], [kind |-> "text_err"], [kind |-> "not_json"]}
    \cup {[kind |-> "json", token |-> tv] :
            tv \in {TokenMissing, TokenNotString, TokenStr(IssuedToken(ip))}}

Sensor(n, r) == [name |-> n, reading |-> r]

\* the value found under "Sensors" of a sensor response
SensorsArray(a) == [t |-> "array", a |-> a]
SensorsMissing == [t |-> "missing"]
SensorsNotArray == [t |-> "not_array"]

\* "Sensors" arrays the controllers answer with in the concurrent model
PollSensorLists ==
    { <<Sensor(NameStr("CPU_Power"), U64(120)),
        Sensor(NameStr("Fan_Power"), U64(15))>>,
      <<Sensor(NameStr("Unknown_Sensor"), U64(999)),
        Sensor(NameStr("PSU1_PIN"), ReadingString)>> }

\* what can come back from the sensor GET
PollResponses ==
    {[kind |-> "send_err"], [kind |-> "text_err"], [kind |-> "not_json"],
     [kind |-> "json", sensors |-> SensorsMissing],
     [kind |-> "json", sensors |-> SensorsNotArray]}
    \cup {[kind |-> "json", sensors |-> SensorsArray(a)] : a \in PollSensorLists}

\* the response is JSON with an array under "Sensors"
HasSensorsArray(resp) ==
    /\ resp.kind = "json"
    /\ resp.sensors.t = "array"

\* Duration::from_secs(1) of the poller's sleep, in ms
PollInterval == 1000

\* times a cycle of the poller can take, from its start to the moment it
\* holds the write lock
CycleTimes == {0, 500, 1000}

\* events crossterm can deliver
Events == {"key_q", "key_other", "not_key"}

(***************************************************************************)
(* State                                                                   *)
(***************************************************************************)
VARIABLES
    ips,            \* args.ips
    pc,             \* position of the main task (main, then start_ui)
    exitPath,       \* how the main task left its loop: "none" while it runs
    tokens,         \* get_tokens: the tokens pushed so far
    logins,         \* history: login responses received so far
    rawMode,        \* terminal is in raw mode
    altScreen,      \* terminal shows the alternate screen
    teardowns,      \* history: times the teardown sequence was entered
    rguard,         \* start_ui holds `data`, a read guard of the lock
    frame,          \* panels rendered by this iteration's terminal.draw
    elapsed,        \* last_tick.elapsed()
    event,          \* the event read in this iteration, "none" if none
    wait,           \* the Duration passed to this iteration's event::poll
    wguard,         \* update_readings holds `guard`, the write guard
    readings,       \* the HashMap in the shared slot
    pollPc,         \* position of the spawned poller task
    pollIdx,        \* update_readings: index of the next (ip, token) pair
    map,            \* update_readings: the local map being built
    got,            \* history: per address, the "Sensors" array of the
                    \*   last response of this cycle that carried one
    lastInstalled,  \* history: map installed by the last finished cycle
    pollClock,      \* time since the poller entered its current cycle
    reqs,           \* history: the sensor requests this cycle has issued
    writes,         \* history: assignments to the shared slot in this cycle
    sensorsIn,      \* sensor loop on its own: the "Sensors" array
    readingOut,     \* sensor loop on its own: the SensorReading built
    foldPc          \* sensor loop on its own: "off", "ready" or "done"

vars == <<ips, pc, exitPath, tokens, logins, rawMode, altScreen, teardowns,
          rguard, frame, elapsed, event, wait, wguard, readings, pollPc,
          pollIdx, map, got, lastInstalled, pollClock, reqs, writes,
          sensorsIn, readingOut, foldPc>>

startVars == <<ips, tokens, logins>>
termVars == <<rawMode, altScreen, teardowns>>
loopVars == <<rguard, frame, elapsed, event, wait>>
pollVars == <<wguard, readings, pollPc, pollIdx, map, got, lastInstalled,
             pollClock, reqs, writes>>
foldVars == <<sensorsIn, readingOut, foldPc>>

\* HashMap::new()
EmptyMap == [a \in {} |-> EmptyReading]

\* map.insert(key, value)
Insert(m, key, value) == [a \in DOMAIN m \cup {key} |->
                            IF a = key THEN value ELSE m[a]]

Exited == {"exit_ok", "exit_err", "panicked"}

\* the process lives until main returns or panics
ProcessAlive == pc \notin Exited

\* everything but the address list, as it is when main starts
StartState ==
    /\ pc = "build_client"
    /\ exitPath = "none"
    /\ tokens = << >>
    /\ logins = << >>
    /\ rawMode = FALSE
    /\ altScreen = FALSE
    /\ teardowns = 0
    /\ rguard = FALSE
    /\ frame = << >>
    /\ elapsed = 0
    /\ event = "none"
    /\ wait = 0
    /\ wguard = FALSE
    /\ readings = EmptyMap
    /\ pollPc = "off"
    /\ pollIdx = 1
    /\ map = EmptyMap
    /\ got = EmptyMap
    /\ lastInstalled = EmptyMap
    /\ pollClock = 0
    /\ reqs = << >>
    /\ writes = 0

Init ==
    /\ ips \in IpLists
    /\ StartState
    /\ sensorsIn = << >>
    /\ readingOut = EmptyReading
    /\ foldPc = "off"

\* main returns (`?` or the end of start_ui) or panics: the process ends,
\* and with it the poller task, the guards and the snapshot; the terminal
\* stays as it is
ProcessExit(state, path) ==
    /\ pc' = state
    /\ exitPath' = path
    /\ rguard' = FALSE
    /\ frame' = << >>
    /\ elapsed' = 0
    /\ wait' = 0
    /\ wguard' = FALSE
    /\ readings' = EmptyMap
    /\ pollPc' = "off"
    /\ pollIdx' = 1
    /\ map' = EmptyMap
    /\ got' = EmptyMap
    /\ lastInstalled' = EmptyMap
    /\ pollClock' = 0
    /\ reqs' = << >>
    /\ writes' = 0

\* the main task moves on to `next`
Goto(next) ==
    /\ pc' = next
    /\ UNCHANGED <<exitPath, pollVars>>

(***************************************************************************)
(* main and get_tokens                                                     *)
(***************************************************************************)
\* Client::builder().danger_accept_invalid_certs(true).build()?
BuildClient ==
    /\ pc = "build_client"
    /\ \/ /\ Goto("get_tokens")
          /\ UNCHANGED loopVars
       \/ /\ ProcessExit("exit_err", "client_err")
          /\ UNCHANGED event
    /\ UNCHANGED <<startVars, termVars, foldVars>>

\* one iteration of `for ip in ips` in get_tokens; after the last one
\* get_tokens returns Ok(tokens)
GetTokensStep ==
    /\ pc = "get_tokens"
    /\ Len(tokens) < Len(ips)
    /\ LET ip == ips[Len(tokens) + 1] IN
       \E resp \in LoginResponses(ip) :
          /\ logins' = Append(logins, resp)
          /\ IF resp.kind = "send_err"
             THEN /\ ProcessExit("exit_err", "login_err")  \* .send().await?
                  /\ UNCHANGED <<tokens, event>>
             ELSE IF resp.kind = "text_err"
             THEN /\ ProcessExit("exit_err", "login_err")  \* resp.text().await?
                  /\ UNCHANGED <<tokens, event>>
             ELSE IF resp.kind = "not_json"
             THEN /\ ProcessExit("exit_err", "login_err")  \* from_str(&text)?
                  /\ UNCHANGED <<tokens, event>>
             ELSE /\ tokens' = Append(tokens, token_of(resp.token))
                  /\ Goto(IF Len(tokens') = Len(ips) THEN "spawn" ELSE pc)
                  /\ UNCHANGED loopVars
    /\ UNCHANGED <<ips, termVars, foldVars>>

\* faulty variant: the poller is spawned while get_tokens is still running
Spawn_Early ==
    /\ pc \in {"get_tokens", "spawn"}
    /\ pollPc = "off"
    /\ pc' = IF pc = "spawn" THEN "enable_raw" ELSE pc
    /\ pollPc' = "start"
    /\ UNCHANGED <<startVars, exitPath, termVars, loopVars, wguard, readings,
                   pollIdx, map, got, lastInstalled, pollClock, reqs, writes,
                   foldVars>>

\* tokio::spawn of the poller loop, then the call of start_ui
Spawn ==
    /\ pc = "spawn"
    /\ pc' = "enable_raw"
    /\ pollPc' = "start"
    /\ UNCHANGED <<startVars, exitPath, termVars, loopVars, wguard, readings,
                   pollIdx, map, got, lastInstalled, pollClock, reqs, writes,
                   foldVars>>

(***************************************************************************)
(* start_ui: terminal setup                                                *)
(***************************************************************************)
\* enable_raw_mode()?
EnableRaw ==
    /\ pc = "enable_raw"
    /\ \/ /\ rawMode' = TRUE
          /\ Goto("enter_alt")
          /\ UNCHANGED loopVars
       \/ /\ ProcessExit("exit_err", "setup_err")
          /\ UNCHANGED <<rawMode, event>>
    /\ UNCHANGED <<startVars, altScreen, teardowns, foldVars>>

\* execute!(stdout, EnterAlternateScreen, EnableMouseCapture)?; when it
\* fails, the screen may or may not have been switched already
EnterAlt ==
    /\ pc = "enter_alt"
    /\ \/ /\ altScreen' = TRUE
          /\ Goto("new_terminal")
          /\ UNCHANGED loopVars
       \/ /\ ProcessExit("exit_err", "setup_err")
          /\ altScreen' \in BOOLEAN
          /\ UNCHANGED event
    /\ UNCHANGED <<startVars, rawMode, teardowns, foldVars>>

\* Terminal::new(backend)?, then last_tick = Instant::now()
NewTerminal ==
    /\ pc = "new_terminal"
    /\ \/ /\ Goto("read_lock")
          /\ elapsed' = 0
          /\ UNCHANGED <<rguard, frame, event, wait>>
       \/ /\ ProcessExit("exit_err", "setup_err")
          /\ UNCHANGED event
    /\ UNCHANGED <<startVars, termVars, foldVars>>

(***************************************************************************)
(* start_ui: the render loop                                               *)
(***************************************************************************)
\* r.<metric>.unwrap_or(0)
unwrap_or_0(v) == IF v = None THEN 0 ELSE v

\* the format! of a SensorReading: the seven numbers in the order the text
\* shows them
FormatReading(r) ==
    [text |-> "metrics",
     nums |-> <<unwrap_or_0(r.psu_pin), unwrap_or_0(r.cpu_power),
                unwrap_or_0(r.cpu0_power), unwrap_or_0(r.cpu1_power),
                unwrap_or_0(r.fan_power), unwrap_or_0(r.cpu0_temp),
                unwrap_or_0(r.cpu1_temp)>>]

NoDataText == [text |-> " No data available.", nums |-> << >>]

\* faulty variant: an address without entry is shown like one with no metric
PanelText_Defaults(data, ip) ==
    FormatReading(IF ip \in DOMAIN data THEN data[ip] ELSE EmptyReading)

\* `match data.get(ip)`: the text of the panel of `ip`
PanelText(data, ip) ==
    IF ip \in DOMAIN data THEN FormatReading(data[ip]) ELSE NoDataText

\* the Paragraph in a Block titled with the address
Panel(data, ip) == [title |-> ip, body |-> PanelText(data, ip)]

\* faulty variant: the reader does not wait for the writer
CanRead_Unlocked == TRUE

\* faulty variant: a reader gets the lock although a writer is queued
CanRead_ReadersFirst == ~wguard

\* a reader gets the lock when no writer holds it and none is queued: the
\* tokio RwLock is fair, a queued writer goes before later readers
CanRead == ~wguard /\ pollPc # "write"

\* let data = readings.read().await
ReadAcquire ==
    /\ pc = "read_lock"
    /\ CanRead
    /\ rguard' = TRUE
    /\ Goto("draw")
    /\ UNCHANGED <<startVars, termVars, frame, elapsed, event, wait,
                   foldVars>>

\* one iteration of `for (i, ip) in ips.iter().enumerate()` in the closure
DrawPanel ==
    /\ pc = "draw"
    /\ Len(frame) < Len(ips)
    /\ frame' = Append(frame, Panel(readings, ips[Len(frame) + 1]))
    /\ UNCHANGED <<startVars, pc, exitPath, termVars, rguard, elapsed, event,
                   wait, pollVars, foldVars>>

\* terminal.draw(..)? returns; waiting for the lock and drawing took time
DrawEnd ==
    /\ pc = "draw"
    /\ Len(frame) = Len(ips)
    /\ \/ /\ Goto("poll")
          /\ elapsed' \in {t \in TimePoints : t >= elapsed}
          /\ UNCHANGED <<rguard, frame, event, wait>>
       \/ /\ ProcessExit("exit_err", "draw_err")
          /\ UNCHANGED event
    /\ UNCHANGED <<startVars, termVars, foldVars>>

\* event::poll(tick_rate - last_tick.elapsed())?: Duration's `-` panics when
\* the result would be negative
EventPoll ==
    /\ pc = "poll"
    /\ IF elapsed > TickRate
       THEN /\ ProcessExit("panicked", "panic")
            /\ UNCHANGED event
       ELSE \/ /\ Goto("read_event")               \* Ok(true) within the wait
               /\ wait' = TickRate - elapsed
               /\ elapsed' \in {t \in TimePoints :
                                  elapsed <= t /\ t <= TickRate}
               /\ UNCHANGED <<rguard, frame, event>>
            \/ /\ Goto("tick_check")               \* Ok(false): it ran out
               /\ wait' = TickRate - elapsed
               /\ elapsed' \in {t \in TimePoints : t >= TickRate}
               /\ UNCHANGED <<rguard, frame, event>>
            \/ /\ ProcessExit("exit_err", "poll_err")
               /\ UNCHANGED event
    /\ UNCHANGED <<startVars, termVars, foldVars>>

\* faulty variant: every key event ends the loop
IsQuit_AnyKey(ev) == ev \in {"key_q", "key_other"}

\* `if let Event::Key(key) = ..` and `key.code == KeyCode::Char('q')`
IsQuit(ev) == ev = "key_q"

\* event::read()? and the test for the quit key; `break` drops `data`
EventRead ==
    /\ pc = "read_event"
    /\ \/ \E ev \in Events :
            /\ event' = ev
            /\ IF IsQuit(ev)
               THEN /\ pc' = "disable_raw"
                    /\ exitPath' = "quit"
                    /\ rguard' = FALSE
                    /\ frame' = << >>
                    /\ wait' = 0
                    /\ UNCHANGED <<elapsed, pollVars>>
               ELSE /\ Goto("tick_check")
                    /\ UNCHANGED <<rguard, frame, elapsed, wait>>
       \/ /\ ProcessExit("exit_err", "read_err")
          /\ UNCHANGED event
    /\ UNCHANGED <<startVars, termVars, foldVars>>

\* `if last_tick.elapsed() >= tick_rate { last_tick = Instant::now() }` and
\* the end of the loop body, where `data` is dropped
TickCheck ==
    /\ pc = "tick_check"
    /\ elapsed' = IF elapsed >= TickRate THEN 0 ELSE elapsed
    /\ rguard' = FALSE
    /\ event' = "none"
    /\ wait' = 0
    /\ frame' = << >>
    /\ Goto("read_lock")
    /\ UNCHANGED <<startVars, termVars, foldVars>>

(***************************************************************************)
(* start_ui: teardown after the loop                                       *)
(***************************************************************************)
\* disable_raw_mode()?
DisableRaw ==
    /\ pc = "disable_raw"
    /\ teardowns' = teardowns + 1
    /\ \/ /\ rawMode' = FALSE
          /\ Goto("leave_alt")
          /\ UNCHANGED loopVars
       \/ /\ ProcessExit("exit_err", exitPath)
          /\ UNCHANGED <<rawMode, event>>
    /\ UNCHANGED <<startVars, altScreen, foldVars>>

\* execute!(terminal.backend_mut(), LeaveAlternateScreen, DisableMouseCapture)?
LeaveAlt ==
    /\ pc = "leave_alt"
    /\ \/ /\ altScreen' = FALSE
          /\ Goto("show_cursor")
          /\ UNCHANGED loopVars
       \/ /\ ProcessExit("exit_err", exitPath)
          /\ UNCHANGED <<altScreen, event>>
    /\ UNCHANGED <<startVars, rawMode, teardowns, foldVars>>

\* terminal.show_cursor()?; Ok(())
ShowCursor ==
    /\ pc = "show_cursor"
    /\ \E state \in {"exit_ok", "exit_err"} : ProcessExit(state, exitPath)
    /\ UNCHANGED <<startVars, termVars, event, foldVars>>

(***************************************************************************)
(* The poller task: loop { update_readings(..).await; sleep(1 s).await }   *)
(***************************************************************************)
\* faulty variant: the poller stops as soon as the quit key has been read
PollerRuns_UntilQuit == ProcessAlive /\ pollPc # "off" /\ exitPath # "quit"

\* the poller task dies with the process
PollerRuns == ProcessAlive /\ pollPc # "off"

mainVars == <<pc, exitPath, termVars, loopVars>>

\* faulty variant: the new cycle starts from the entries of the current snapshot
NewMap_Carry == readings

\* `let mut map = HashMap::new()`
NewMap == EmptyMap

\* from_str::<Value>(&resp.text().await.unwrap_or_default()): a body that
\* cannot be read becomes "", which is not JSON
ParsesAsJson(resp) == resp.kind = "json"

\* faulty variant: an address that failed gets an entry with every metric absent
MapAfter_Defaults(m, ip, resp) ==
    IF HasSensorsArray(resp)
    THEN Insert(m, ip, ParseSensors(resp.sensors.a))
    ELSE Insert(m, ip, EmptyReading)

\* faulty variant: a failed address ends the cycle's collection: the map is cleared
MapAfter_ClearOnFail(m, ip, resp) ==
    IF HasSensorsArray(resp)
    THEN Insert(m, ip, ParseSensors(resp.sensors.a))
    ELSE EmptyMap

\* faulty variant: every request carries the token of the first address
SensorRequest_FirstToken(i) == [ip |-> ips[i], token |-> tokens[1]]

\* the GET of the i-th pair of ips.iter().zip(tokens.iter()): the URL holds
\* the address, the header X-Auth-Token holds the token
SensorRequest(i) == [ip |-> ips[i], token |-> tokens[i]]

\* the body of the loop over (ip, token): what `map` is after the response
MapAfter(m, ip, resp) ==
    IF resp.kind # "send_err"                          \* if let Ok(resp)
    THEN IF ParsesAsJson(resp)                         \* if let Ok(json)
         THEN IF resp.sensors.t = "array"              \* if let Some(sensors)
              THEN Insert(m, ip, ParseSensors(resp.sensors.a))
              ELSE m
         ELSE m
    ELSE m

\* faulty variant: update_readings takes the write lock on entry and holds it
\* during the requests
CycleStart_Locked ==
    /\ PollerRuns
    /\ pollPc = "start"
    /\ ~rguard
    /\ wguard' = TRUE
    /\ map' = NewMap
    /\ pollIdx' = 1
    /\ got' = EmptyMap
    /\ pollClock' = 0
    /\ reqs' = << >>
    /\ writes' = 0
    /\ pollPc' = "request"
    /\ UNCHANGED <<startVars, mainVars, readings, lastInstalled, foldVars>>

\* entry of update_readings
CycleStart ==
    /\ PollerRuns
    /\ pollPc = "start"
    /\ map' = NewMap
    /\ pollIdx' = 1
    /\ got' = EmptyMap
    /\ pollClock' = 0
    /\ reqs' = << >>
    /\ writes' = 0
    /\ pollPc' = "request"
    /\ UNCHANGED <<startVars, mainVars, wguard, readings, lastInstalled,
                   foldVars>>

\* one iteration of `for (ip, token) in ips.iter().zip(tokens.iter())`;
\* after the last one the task calls readings.write() and queues for the lock
PollRequest ==
    /\ PollerRuns
    /\ pollPc = "request"
    /\ pollIdx <= Len(ips) /\ pollIdx <= Len(tokens)
    /\ reqs' = Append(reqs, SensorRequest(pollIdx))
    /\ \E resp \in PollResponses :
          /\ map' = MapAfter(map, ips[pollIdx], resp)
          /\ got' = IF HasSensorsArray(resp)
                    THEN Insert(got, ips[pollIdx], resp.sensors.a)
                    ELSE got
    /\ pollIdx' = pollIdx + 1
    /\ pollPc' = IF pollIdx' > Len(ips) THEN "write" ELSE "request"
    /\ UNCHANGED <<startVars, mainVars, wguard, readings, lastInstalled,
                   pollClock, writes, foldVars>>

\* faulty variant: the writer does not wait for the reader
CanWrite_Unlocked == TRUE

\* the writer gets the lock when no reader holds it
CanWrite == ~rguard

\* let mut guard = readings.write().await returns; the requests of the
\* cycle and the wait for the lock took time
WriteAcquire ==
    /\ PollerRuns
    /\ pollPc = "write"
    /\ CanWrite
    /\ wguard' = TRUE
    /\ pollClock' \in CycleTimes
    /\ pollPc' = "assign"
    /\ UNCHANGED <<startVars, mainVars, readings, pollIdx, map, got,
                   lastInstalled, reqs, writes, foldVars>>

\* *guard = map
Assign ==
    /\ PollerRuns
    /\ pollPc = "assign"
    /\ readings' = map
    /\ writes' = writes + 1
    /\ pollPc' = "release"
    /\ UNCHANGED <<startVars, mainVars, wguard, pollIdx, map, got,
                   lastInstalled, pollClock, reqs, foldVars>>

\* update_readings returns: `guard` is dropped, the cycle has finished
Release ==
    /\ PollerRuns
    /\ pollPc = "release"
    /\ wguard' = FALSE
    /\ lastInstalled' = readings
    /\ pollPc' = "sleep"
    /\ UNCHANGED <<startVars, mainVars, readings, pollIdx, map, got, pollClock,
                   reqs, writes, foldVars>>

\* faulty variant: the sleep ends at the interval boundary counted from the
\* start of the cycle
SleepDone_ToBoundary ==
    /\ PollerRuns
    /\ pollPc = "sleep"
    /\ pollClock' = IF pollClock < PollInterval THEN PollInterval ELSE pollClock
    /\ pollPc' = "start"
    /\ UNCHANGED <<startVars, mainVars, wguard, readings, pollIdx, map, got,
                   lastInstalled, reqs, writes, foldVars>>

\* sleep(Duration::from_secs(1)).await is over
SleepDone ==
    /\ PollerRuns
    /\ pollPc = "sleep"
    /\ pollClock' = pollClock + PollInterval
    /\ pollPc' = "start"
    /\ UNCHANGED <<startVars, mainVars, wguard, readings, pollIdx, map, got,
                   lastInstalled, reqs, writes, foldVars>>

Next ==
    \/ BuildClient
    \/ GetTokensStep
    \/ Spawn
    \/ EnableRaw
    \/ EnterAlt
    \/ NewTerminal
    \/ ReadAcquire
    \/ DrawPanel
    \/ DrawEnd
    \/ EventPoll
    \/ EventRead
    \/ TickCheck
    \/ DisableRaw
    \/ LeaveAlt
    \/ ShowCursor
    \/ CycleStart
    \/ PollRequest
    \/ WriteAcquire
    \/ Assign
    \/ Release
    \/ SleepDone

Spec == Init /\ [][Next]_vars

\* a step of the main task inside start_ui's loop
LoopStep ==
    \/ ReadAcquire
    \/ DrawPanel
    \/ DrawEnd
    \/ EventPoll
    \/ EventRead
    \/ TickCheck

\* a step of the poller task
PollerStep ==
    \/ CycleStart
    \/ PollRequest
    \/ WriteAcquire
    \/ Assign
    \/ Release
    \/ SleepDone

\* the tokio runtime polls every task that is ready, every network call
\* returns, the sleep ends, terminal.draw returns and event::poll returns
\* when its wait is over: neither task stays forever at a step it can take
FairSpec == Spec /\ WF_vars(LoopStep) /\ WF_vars(PollerStep)

(***************************************************************************)
(* The sensor loop on its own: the loop of update_readings over one        *)
(* "Sensors" array, for every array up to MaxSensors entries               *)
(***************************************************************************)
RecognizedNames == {"PSU1_PIN", "CPU_Power", "CPU0_Power", "CPU1_Power",
                    "CPU0_Temp", "CPU1_Temp", "Fan_Power"}

FoldNames == {NameStr(n) : n \in RecognizedNames}
             \cup {NameStr("Unknown_Sensor"), NameStr("cpu_power"),
                   NameStr(""), NameMissing}

FoldReadings == {ReadingMissing, ReadingString, ReadingNegative,
                 ReadingFloat, U64(0), U64(120), U64(999)}

FoldSensorLists ==
    SeqsUpTo({Sensor(n, r) : n \in FoldNames, r \in FoldReadings}, MaxSensors)

InitFold ==
    /\ ips = <<"a1">>
    /\ StartState
    /\ sensorsIn \in FoldSensorLists
    /\ readingOut = EmptyReading
    /\ foldPc = "ready"

\* `let mut reading = SensorReading {..None}` and `for sensor in sensors`
FoldRun ==
    /\ foldPc = "ready"
    /\ readingOut' = ParseSensors(sensorsIn)
    /\ foldPc' = "done"
    /\ UNCHANGED <<startVars, mainVars, pollVars, sensorsIn>>

NextFold == FoldRun

SpecFold == InitFold /\ [][NextFold]_vars

(***************************************************************************)
(* Properties                                                              *)
(***************************************************************************)
Range(f) == {f[x] : x \in DOMAIN f}

\* the main task is inside the render loop and holds its read view
InLoopWithView == pc \in {"draw", "poll", "read_event", "tick_check"}

\* C1: snapshot atomicity.  Whenever the render loop holds a read view, no
\* write is in progress and every panel drawn from the view so far renders
\* one and the same map: the one the last finished poll cycle installed
\* (the empty map before the first cycle finishes).  A frame never mixes two
\* cycles and never shows the map a cycle is still building.
C1_SnapshotAtomic ==
    rguard =>
        /\ InLoopWithView
        /\ ~wguard
        /\ pollPc \notin {"assign", "release"}
        /\ \A i \in 1..Len(frame) :
              frame[i].body = PanelText(lastInstalled, ips[i])

\* C1 witness: a complete two-panel frame drawn from an installed non-empty
\* snapshot while the next cycle has finished building a different map and
\* waits for the lock
C1_Witness ==
    /\ rguard
    /\ pc = "poll"
    /\ Len(ips) = 2 /\ ips[1] # ips[2]
    /\ Len(frame) = 2
    /\ readings # EmptyMap
    /\ pollPc = "write"
    /\ map # readings
    /\ DOMAIN map # DOMAIN readings

\* the snapshot of the cycle that has just been assigned is in the slot
CycleInstalled == pollPc \in {"release", "sleep", "start"}

\* C2: the snapshot a cycle installs has entries only for addresses of the
\* list for which, in that same cycle, a response arrived that parsed as
\* JSON and had an array under "Sensors" (one entry per address at most:
\* the entries are keyed by address).
C2_OnlySucceeded ==
    CycleInstalled =>
        /\ DOMAIN readings \subseteq Range(ips)
        /\ Cardinality(DOMAIN readings) <= Cardinality(Range(ips))
        /\ \A a \in DOMAIN readings : a \in DOMAIN got

\* C2 witness: a two-address cycle is installed in which one address
\* succeeded and the other failed
C2_Witness ==
    /\ pollPc = "sleep"
    /\ Len(ips) = 2
    /\ DOMAIN readings = {ips[1]}
    /\ ips[2] # ips[1]
    /\ ips[2] \notin DOMAIN got

\* every request for address `a` in the cycle just finished has failed (no
\* response with a "Sensors" array arrived for it)
FailedInCycle(a) == a \in Range(ips) /\ a \notin DOMAIN got

\* C3: no stale-data carryover.  When a cycle's map has been assigned, an
\* address that had an entry in the previous cycle's snapshot and whose
\* requests all failed in this cycle has no entry; and a panel drawn for an
\* address without entry in the view shows the "no data available" text.
C3_NoStaleData ==
    /\ pollPc = "release" =>
          \A a \in DOMAIN lastInstalled :
              FailedInCycle(a) => a \notin DOMAIN readings
    /\ rguard =>
          \A i \in 1..Len(frame) :
              ips[i] \notin DOMAIN lastInstalled => frame[i].body = NoDataText

\* C3 witness: the slot holds the new cycle's map, in which an address that
\* the previous snapshot held has failed and is gone
C3_Witness ==
    /\ pollPc = "release"
    /\ \E a \in DOMAIN lastInstalled :
          /\ FailedInCycle(a)
          /\ a \notin DOMAIN readings


\* the exits from the render loop: the quit key and the three `?` in it
LoopExits == {"quit", "draw_err", "poll_err", "read_err"}

\* C4 (the claim as stated): on every exit from the render loop, by the
\* quit key, by an error of terminal.draw or by an error of event::poll or
\* event::read, the teardown of the terminal mode has run exactly once.
C4_TeardownOnEveryExit ==
    (pc \in Exited /\ exitPath \in LoopExits) => teardowns = 1

\* C5 (the claim as stated): a login response that was received never makes
\* get_tokens fail; its token is pushed, and it is the empty string when
\* the body is not JSON or has no string under Oem.Public.X-Auth-Token.
C5_LoginDegrades ==
    \A i \in 1..Len(logins) :
        logins[i].kind \in {"not_json", "json"} =>
            /\ exitPath # "login_err"
            /\ i <= Len(tokens)
            /\ (logins[i].kind = "not_json" \/ logins[i].token.t # "str")
                  => tokens[i] = ""

AfterLoop == {"disable_raw", "leave_alt", "show_cursor", "exit_ok", "exit_err"}

\* what C6 says of the loop: the quit key ends it on the tick it is read
\* (the view is released, nothing is drawn any more), nothing else ends it
\* that way, and any other event continues it
C6_LoopPart ==
    /\ event = "key_q" => (pc \in AfterLoop /\ exitPath = "quit" /\ ~rguard)
    /\ exitPath = "quit" => event = "key_q"
    /\ event \in {"key_other", "not_key"} =>
          (pc = "tick_check" /\ exitPath = "none")
    /\ pc = "tick_check" => exitPath = "none"
    /\ pc \in AfterLoop \ {"exit_err"} => exitPath = "quit"

NameOfMetric(m) ==
    CASE m = "psu_pin" -> "PSU1_PIN"
      [] m = "cpu_power" -> "CPU_Power"
      [] m = "cpu0_power" -> "CPU0_Power"
      [] m = "cpu1_power" -> "CPU1_Power"
      [] m = "cpu0_temp" -> "CPU0_Temp"
      [] m = "cpu1_temp" -> "CPU1_Temp"
      [] m = "fan_power" -> "Fan_Power"

\* positions of the entries of `sensors` whose Name is exactly `name`
EntriesNamed(sensors, name) ==
    {i \in 1..Len(sensors) :
        sensors[i].name.t = "str" /\ sensors[i].name.s = name}

MaxOf(S) == CHOOSE x \in S : \A y \in S : y <= x

IsRecognized(sensor) ==
    sensor.name.t = "str" /\ sensor.name.s \in RecognizedNames

\* C7: in the stored SensorReading a metric is present only with the numeric
\* Reading of an entry of exactly its name; a metric whose entry (the last
\* one of that name) has a missing or non-numeric Reading, or that has no
\* entry, is absent and not zero; entries of any other or no name change
\* nothing.
C7_AbsentNotZero ==
    foldPc = "done" =>
        /\ \A m \in Metrics :
              LET idx == EntriesNamed(sensorsIn, NameOfMetric(m)) IN
              /\ readingOut[m] # None =>
                    \E i \in idx : sensorsIn[i].reading = U64(readingOut[m])
              /\ (idx # {} /\ sensorsIn[MaxOf(idx)].reading.t # "u64")
                    => readingOut[m] = None
              /\ idx = {} => readingOut[m] = None
        /\ readingOut = ParseSensors(SelectSeq(sensorsIn, IsRecognized))

\* C7 witness: a recognized name with a non-numeric Reading and an unknown
\* name with a numeric one leave every metric absent
C7_Witness ==
    /\ foldPc = "done"
    /\ sensorsIn = <<Sensor(NameStr("PSU1_PIN"), ReadingString),
                     Sensor(NameStr("Unknown_Sensor"), U64(999))>>
    /\ readingOut = EmptyReading

\* C8: per-address isolation.  An address for which a response with a
\* "Sensors" array arrived in the cycle has the entry parsed from the last
\* such response, in the map being built and in the snapshot installed,
\* whatever happened to the other addresses in the cycle and to any address
\* in earlier cycles.
C8_Isolation ==
    /\ pollPc \in {"request", "write", "assign"} =>
          \A a \in DOMAIN got :
              a \in DOMAIN map /\ map[a] = ParseSensors(got[a])
    /\ CycleInstalled =>
          \A a \in DOMAIN got :
              a \in DOMAIN readings /\ readings[a] = ParseSensors(got[a])

\* C8 witness: the first address failed in the previous cycle (that cycle's
\* snapshot holds the second address only) and has an entry in the new
\* snapshot, although the second address failed after it in the new cycle
C8_Witness ==
    /\ pollPc = "release"
    /\ Len(ips) = 2 /\ ips[1] # ips[2]
    /\ DOMAIN lastInstalled = {ips[2]}
    /\ ips[1] \in DOMAIN readings
    /\ FailedInCycle(ips[2])
    /\ ips[2] \notin DOMAIN readings

\* the metrics in the order the panel text shows them
MetricOrder == <<"psu_pin", "cpu_power", "cpu0_power", "cpu1_power",
                 "fan_power", "cpu0_temp", "cpu1_temp">>

\* what panel i must show for the view `data`
ShowsView(panel, data, ip) ==
    /\ panel.title = ip
    /\ ip \in DOMAIN data =>
          /\ panel.body.text = "metrics"
          /\ Len(panel.body.nums) = Len(MetricOrder)
          /\ \A k \in 1..Len(MetricOrder) :
                panel.body.nums[k] =
                    IF data[ip][MetricOrder[k]] = None THEN 0
                    ELSE data[ip][MetricOrder[k]]
    /\ (ip \notin DOMAIN data) <=> (panel.body = NoDataText)

\* C9: a tick draws one panel per address of the list, in list order; the
\* panel shows the entry of the address in the view, absent metrics as 0,
\* and the no-data text if and only if the view has no entry for it.
C9_PanelPerAddress ==
    /\ Len(frame) <= Len(ips)
    /\ pc \in {"poll", "read_event", "tick_check"} => Len(frame) = Len(ips)
    /\ pc = "read_lock" => frame = << >>
    /\ InLoopWithView =>
          \A i \in 1..Len(frame) : ShowsView(frame[i], readings, ips[i])

\* C9 witness: a finished frame whose first panel shows a reading with
\* present and absent metrics and whose second panel shows the no-data text
C9_Witness ==
    /\ pc = "poll"
    /\ Len(ips) = 2
    /\ Len(frame) = 2
    /\ frame[1].title = ips[1] /\ frame[2].title = ips[2]
    /\ frame[1].body = [text |-> "metrics", nums |-> <<0, 120, 0, 0, 15, 0, 0>>]
    /\ frame[2].body = NoDataText

\* C10: freshness.  When the render loop acquires its view, the slot holds
\* the snapshot of the most recently finished cycle (the empty one before
\* the first) and no cycle is replacing it; while the view is held the slot
\* stays that snapshot and no cycle finishes, so a view is never older than
\* an earlier one and never of an unfinished cycle.
C10_Freshness ==
    /\ [][(~rguard /\ rguard') =>
            (/\ readings' = lastInstalled
             /\ pollPc \notin {"assign", "release"})]_vars
    /\ [][(rguard /\ rguard') =>
            (readings' = readings /\ lastInstalled' = lastInstalled)]_vars
    /\ [](rguard => readings = lastInstalled)

\* C10 witness: the loop holds the snapshot of a finished cycle while the
\* next cycle is half way through building a different map
C10_Witness ==
    /\ rguard
    /\ readings # EmptyMap
    /\ pollPc = "request"
    /\ pollIdx = 2
    /\ Len(ips) = 2
    /\ DOMAIN map # {}
    /\ ips[1] \notin DOMAIN readings

(***************************************************************************)
(* The wait of the render loop                                             *)
(***************************************************************************)
\* the iteration has called event::poll
Polled == pc \in {"read_event", "tick_check"}

\* C11: the computation of the wait never ends the render loop, and the
\* Duration every iteration passes to event::poll lies between zero and the
\* tick interval: an iteration that reaches the poll later than one tick
\* interval after the last tick polls with a wait of zero
C11_WaitClamped ==
    /\ exitPath # "panic"
    /\ Polled => wait \in 0..TickRate

(***************************************************************************)
(* The schedule of the poller                                              *)
(***************************************************************************)
\* the step in which the sleep between two cycles ends
SleepEnds == pollPc = "sleep" /\ pollPc' = "start"

\* C12 as stated: the sleep ends at the interval boundary counted from the
\* start of the cycle: after a cycle shorter than the interval the next cycle
\* starts one interval after this one started, and after a cycle of an
\* interval or more the sleep is shorter than the interval
C12_SleepToBoundary ==
    [][SleepEnds =>
         /\ pollClock < PollInterval => pollClock' = PollInterval
         /\ pollClock >= PollInterval => pollClock' - pollClock < PollInterval]_vars

\* C12: the sleep lasts one full interval counted from the end of the cycle,
\* whatever the cycle took: the next cycle starts one interval plus the
\* length of this cycle after this one started
C12_SleepFromCompletion ==
    [][SleepEnds => pollClock' = pollClock + PollInterval]_vars

\* C12: a cycle that took half an interval was followed by a full sleep, and
\* the next cycle is about to start
C12_Witness ==
    /\ pollPc = "start"
    /\ pollClock = 500 + PollInterval
    /\ lastInstalled # EmptyMap

(***************************************************************************)
(* Poller and render loop on the lock                                      *)
(***************************************************************************)
\* the render loop is at its input wait, the call of event::poll
InputWait == pc = "poll"

\* the poller has called readings.write() and waits for the lock
WriterWaits == pollPc = "write" /\ ~CanWrite

\* the render loop has called readings.read() and waits for the lock
ReaderWaits == pc = "read_lock" /\ ~CanRead

\* C13: the render loop does not hold its view of the snapshot during the
\* input wait, so the poller never waits for the lock while the render loop
\* is at the input wait; and the render loop waits for the lock only while
\* the poller is at the lock, never during a request or the sleep
C13_NonBlocking ==
    /\ InputWait => ~rguard
    /\ WriterWaits => ~InputWait
    /\ ReaderWaits => pollPc \in {"write", "assign", "release"}

(***************************************************************************)
(* Startup                                                                 *)
(***************************************************************************)
\* get_tokens has not returned Ok: some address has no token yet
LoginPending == Len(tokens) < Len(ips)

\* the poller has not been spawned, no sensor request has been issued and
\* the terminal is as the program found it
NothingStarted ==
    /\ pollPc = "off"
    /\ reqs = << >>
    /\ ~rawMode /\ ~altScreen
    /\ teardowns = 0

\* C14: as long as some address has no token, the poller is not running, no
\* sensor request has been issued and the terminal mode is unchanged; and a
\* login request that got no response has ended the program with an error
\* in that state
C14_LoginFirst ==
    /\ LoginPending => NothingStarted
    /\ \A i \in DOMAIN logins :
          logins[i].kind = "send_err" =>
             /\ pc = "exit_err"
             /\ exitPath = "login_err"
             /\ LoginPending
             /\ NothingStarted

\* C14: the login of the second of two addresses got no response, after the
\* first one had been given a token
C14_Witness ==
    /\ Len(ips) = 2
    /\ Len(logins) = 2
    /\ logins[1].kind = "json"
    /\ logins[2].kind = "send_err"
    /\ Len(tokens) = 1
    /\ pc = "exit_err"

(***************************************************************************)
(* Requests of a cycle                                                     *)
(***************************************************************************)
\* one request for each of the first n addresses, in the order of the list,
\* the i-th with the i-th token
RequestsUpTo(n) == [i \in 1..n |-> [ip |-> ips[i], token |-> tokens[i]]]

\* the poller has handled every address of its current cycle
RequestsDone == pollPc \in {"write", "assign", "release", "sleep"}

\* C15, the tokens: once get_tokens has returned, there is one token per
\* address, the i-th taken from the login response of the i-th address
C15_TokensAligned ==
    ~LoginPending =>
       /\ Len(tokens) = Len(ips)
       /\ Len(logins) = Len(ips)
       /\ \A i \in DOMAIN ips :
             /\ logins[i].kind = "json"
             /\ tokens[i] = token_of(logins[i].token)
             /\ tokens[i] \in {"", IssuedToken(ips[i])}

\* C15, the requests: the requests a cycle has issued so far are those for
\* the addresses before pollIdx, one each, in the order of the list, each
\* with the token of its address; a cycle that has handled every address has
\* issued one request per address
C15_RequestsInStep ==
    /\ pollPc = "request" => reqs = RequestsUpTo(pollIdx - 1)
    /\ RequestsDone => reqs = RequestsUpTo(Len(ips))

\* C15: in every cycle the poller issues one request per address, in the
\* order of the address list, each carrying the token acquired at startup
\* for that address, and the tokens never change once acquired
C15_Lockstep ==
    /\ [](C15_TokensAligned /\ C15_RequestsInStep)
    /\ [][~LoginPending => tokens' = tokens]_vars

\* C15: a later cycle has handled both addresses, the first of which has the
\* empty token, after every request of the cycle failed
C15_Witness ==
    /\ RequestsDone
    /\ ips = <<"a1", "a2">>
    /\ tokens = <<"", IssuedToken("a2")>>
    /\ reqs = <<[ip |-> "a1", token |-> ""],
                [ip |-> "a2", token |-> IssuedToken("a2")]>>
    /\ map = EmptyMap
    /\ lastInstalled # EmptyMap

(***************************************************************************)
(* Progress on the lock                                                    *)
(***************************************************************************)
\* update_readings has returned in this cycle: the snapshot is installed
Installed == pollPc = "sleep" /\ writes = 1 /\ readings = map

\* C16: a cycle that has handled every address and waits for the write lock
\* gets it and installs its snapshot, unless the process ends first, however
\* often the render loop takes its read view again; and the two tasks are
\* never both waiting for the lock
C16_InstallProgress ==
    /\ (pollPc = "write") ~> (Installed \/ ~ProcessAlive)
    /\ [](~(ReaderWaits /\ WriterWaits))

\* C16: the poller holds the write lock it had asked for while the render
\* loop, back from an iteration, waits for its next read view
C16_Witness ==
    /\ wguard
    /\ pollPc = "assign"
    /\ ReaderWaits
    /\ lastInstalled # EmptyMap

(***************************************************************************)
(* The write lock                                                          *)
(***************************************************************************)
\* the poller is between readings.write().await and the drop of `guard`
AtReplacement == pollPc \in {"assign", "release"}

\* C17: the poller holds the write lock only around the assignment of the
\* whole map: not during a request or the handling of its response, and not
\* during the sleep; a cycle assigns to the shared slot once, and what it
\* assigns is its finished local map
C17_WriteLockOnlyToReplace ==
    /\ [](wguard => AtReplacement)
    /\ [](/\ pollPc \in {"request", "write", "assign"} => writes = 0
          /\ pollPc \in {"release", "sleep"} => writes = 1)
    /\ [][readings' # readings =>
            \/ pollPc = "assign" /\ wguard /\ readings' = map
            \/ pc' \in Exited]_vars

\* C17: a cycle over two addresses has replaced the map in the slot by a
\* different one and still holds the lock
C17_Witness ==
    /\ pollPc = "release"
    /\ wguard
    /\ writes = 1
    /\ Len(ips) = 2
    /\ readings = map
    /\ readings # lastInstalled
    /\ lastInstalled # EmptyMap

(***************************************************************************)
(* Quit and the poller                                                     *)
(***************************************************************************)
\* tokio::spawn has run and the process lives
PollerSpawned == ProcessAlive /\ pc \notin {"build_client", "get_tokens", "spawn"}

\* what C18 says of the poller: from the spawn to the end of the process it
\* is in its cycle and can take its next step, unless it waits for the lock
\* the render loop holds; and it is gone when the process has ended
C18_PollerPart ==
    /\ PollerSpawned => /\ pollPc # "off"
                        /\ (ENABLED PollerStep) \/ WriterWaits
    /\ ~ProcessAlive => pollPc = "off"

\* what C18 says of the way from the quit key to the end of the process:
\* the main task is in the teardown or has returned, and no step of the
\* teardown waits for the poller
C18_NoWaitPart ==
    /\ exitPath = "quit" => (pc \in AfterLoop /\ ~rguard)
    /\ pc = "disable_raw" => ENABLED DisableRaw
    /\ pc = "leave_alt" => ENABLED LeaveAlt
    /\ pc = "show_cursor" => ENABLED ShowCursor

C19_LastEntryWins ==
    foldPc = "done" =>
        \A m \in Metrics :
           LET idx == EntriesNamed(sensorsIn, NameOfMetric(m)) IN
           idx # {} =>
              LET last == sensorsIn[MaxOf(idx)].reading IN
              readingOut[m] = IF last.t = "u64" THEN last.v ELSE None

\* C19: two entries named PSU1_PIN, the first with a numeric Reading and the
\* second with a Reading that is a string, leave the metric absent
C19_Witness ==
    /\ foldPc = "done"
    /\ sensorsIn = <<Sensor(NameStr("PSU1_PIN"), U64(120)),
                     Sensor(NameStr("PSU1_PIN"), ReadingString)>>
    /\ readingOut["psu_pin"] = None

=============================================================================
